---------------------------- MODULE Spec2Model ----------------------------
(***************************************************************************)
(* Client data layer of the course marketplace: src/client/src/state/api.ts *)
(*                                                                         *)
(*   - customBaseQuery, the response middleware every request goes through *)
(*     (error toast, success toast, envelope unwrap);                      *)
(*   - the endpoint registry's tag declarations (providesTags /            *)
(*     invalidatesTags) and the cache entries they invalidate;             *)
(*   - updateUserCourseProgress.onQueryStarted, the optimistic patch of    *)
(*     the getUserCourseProgress entry and its undo.                       *)
(*                                                                         *)
(* JavaScript values are modelled as records [t, n, s, f]: t is the type   *)
(* tag, n a number (or an array's identity), s a string, f the fields of   *)
(* an object.  Truthiness, property access, ?., ??, || and toString are    *)
(* operators computed as JavaScript computes them.                         *)
(***************************************************************************)
EXTENDS Integers, Sequences, FiniteSets, TLC

VARIABLES
    call,        \* the last customBaseQuery invocation: inputs, toasts, outcome
    queries,     \* state.api.queries: cache entry of every query cache key
    mutations,   \* state.api.mutations plus each onQueryStarted's patchResult
    pendingTags, \* pendingTagInvalidations of the invalidation middleware
    server       \* the backend's course-progress document (authoritative)

vars == <<call, queries, mutations, pendingTags, server>>

---------------------------------------------------------------------------
(* JavaScript values *)

JsVal(t, n, s, f) == [t |-> t, n |-> n, s |-> s, f |-> f]
Undefined == JsVal("undefined", 0, "", <<>>)
Null      == JsVal("null", 0, "", <<>>)
Num(n)    == JsVal("number", n, "", <<>>)
Bool(b)   == JsVal("boolean", IF b THEN 1 ELSE 0, "", <<>>)
Str(s)    == JsVal("string", 0, s, <<>>)
Arr(id)   == JsVal("array", id, "", <<>>)
Obj(f)    == JsVal("object", 0, "", f)

\* ToBoolean: undefined, null, 0, false and "" are falsy, everything else truthy.
Truthy(v) ==
    CASE v.t = "undefined" -> FALSE
      [] v.t = "null"      -> FALSE
      [] v.t = "number"    -> v.n # 0
      [] v.t = "boolean"   -> v.n = 1
      [] v.t = "string"    -> v.s # ""
      [] OTHER             -> TRUE

\* `name in v` for an object v.
HasField(v, name) == v.t = "object" /\ name \in DOMAIN v.f

\* v.name (every use in the source is on a value already known not to be
\* null or undefined, or goes through ?.): a missing property is undefined.
Get(v, name) == IF HasField(v, name) THEN v.f[name] ELSE Undefined

\* a || b
OrElse(a, b) == IF Truthy(a) THEN a ELSE b

\* a ?? b
Coalesce(a, b) == IF a.t \in {"undefined", "null"} THEN b ELSE a

\* v?.toString()
ToStringOpt(v) ==
    CASE v.t \in {"undefined", "null"} -> Undefined
      [] v.t = "number"  -> Str(ToString(v.n))
      [] v.t = "boolean" -> Str(IF v.n = 1 THEN "true" ELSE "false")
      [] v.t = "string"  -> v
      [] v.t = "array"   -> Str("")
      [] OTHER           -> Str("[object Object]")

\* `${v}` inside a template literal
Interpolate(v) ==
    CASE v.t = "undefined" -> "undefined"
      [] v.t = "null"      -> "null"
      [] OTHER             -> ToStringOpt(v).s

\* { ...o, name: v }
WithField(o, name, v) ==
    Obj([k \in (DOMAIN o.f) \cup {name} |-> IF k = name THEN v ELSE o.f[k]])

---------------------------------------------------------------------------
(* customBaseQuery *)

ErrorToast(msg)   == [kind |-> "error", msg |-> msg]
SuccessToast(msg) == [kind |-> "success", msg |-> msg]

\* Faulty variant: the status tried before the server's message.
ErrorMessageStatusFirst(error) ==
    LET errorData == Coalesce(Get(error, "data"), Obj(<<>>))
    IN  OrElse(OrElse(ToStringOpt(Get(error, "status")),
                      Get(errorData, "message")),
               Str("An error occurred"))

\* errorData.message || result.error.status?.toString() || "An error occurred"
ErrorMessage(error) ==
    LET errorData == Coalesce(Get(error, "data"), Obj(<<>>))
    IN  OrElse(OrElse(Get(errorData, "message"),
                      ToStringOpt(Get(error, "status"))),
               Str("An error occurred"))

\* "error" in result && result.error
IsErrorResult(result) == HasField(result, "error") /\ Truthy(Get(result, "error"))

\* Faulty variant: the method's value not compared with "GET".
SuccessToastsAnyMethod(args, result) ==
    IF /\ HasField(result, "data")
       /\ Truthy(Get(args, "method"))
       /\ Truthy(Get(Get(result, "data"), "message"))
    THEN <<SuccessToast(Get(Get(result, "data"), "message"))>>
    ELSE <<>>

\* "data" in result && args.method && args.method !== "GET", then
\* successData?.message
SuccessToasts(args, result) ==
    IF /\ HasField(result, "data")
       /\ Truthy(Get(args, "method"))
       /\ Get(args, "method") # Str("GET")
       /\ Truthy(Get(Get(result, "data"), "message"))
    THEN <<SuccessToast(Get(Get(result, "data"), "message"))>>
    ELSE <<>>

\* "data" in result && result.data && result.data.data
\*   ? { ...result, data: result.data.data } : result
Normalize(result) ==
    IF /\ HasField(result, "data")
       /\ Truthy(Get(result, "data"))
       /\ Truthy(Get(Get(result, "data"), "data"))
    THEN WithField(result, "data", Get(Get(result, "data"), "data"))
    ELSE result

\* The whole function.  toastThrows says whether the notification library's
\* call throws; the function has no try/catch, so a throwing toast rejects
\* the promise customBaseQuery returns and no result is returned.
customBaseQuery(args, result, toastThrows) ==
    IF IsErrorResult(result)
    THEN [toasts |-> <<ErrorToast(Str("Error: " \o
                          Interpolate(ErrorMessage(Get(result, "error")))))>>,
          threw  |-> toastThrows,
          ret    |-> IF toastThrows THEN Undefined ELSE result]
    ELSE LET ts == SuccessToasts(args, result)
             th == toastThrows /\ ts # <<>>
         IN  [toasts |-> ts,
              threw  |-> th,
              ret    |-> IF th THEN Undefined ELSE Normalize(result)]

---------------------------------------------------------------------------
(* Endpoint registry: cache keys and tag declarations *)

MaxMutations == 2     \* updateUserCourseProgress invocations in one behaviour
MaxCourseMutations == 1   \* course mutations in one behaviour
MaxReconciled == 1    \* updates in one behaviour checked for reconciliation
MaxSections  == 2     \* distinct `sections` arrays a caller may send

CourseIds    == {"c1", "c2"}
MutationIds  == 1..(MaxMutations + MaxCourseMutations + MaxReconciled)
ProgressSlots == 1..MaxMutations
CourseSlots   == 1..MaxCourseMutations
ReconcileSlots == 1..MaxReconciled
SectionIds   == 1..MaxSections

NoId == "__internal_without_id"
Tag(type, id) == [type |-> type, id |-> id]

Query(ep, arg) == [ep |-> ep, arg |-> arg]
ProgressKey    == "u1/c1"        \* the { userId, courseId } argument, serialized
ProgressQuery  == Query("getUserCourseProgress", ProgressKey)
EnrolledQuery  == Query("getUserEnrolledCourses", "u1")
CoursesQuery   == Query("getCourses", "")
CourseQuery(c) == Query("getCourse", c)

ProgressQueries == {ProgressQuery}
CourseQueries   == {CoursesQuery, EnrolledQuery} \cup {CourseQuery(c) : c \in CourseIds}
QueryKeys       == ProgressQueries \cup CourseQueries

\* Faulty variant: getCourse provides a tag of another type than Courses.
providesTagsCourseUntyped(q) ==
    CASE q.ep = "getCourses"              -> {Tag("Courses", NoId)}
      [] q.ep = "getCourse"               -> {Tag("Course", q.arg)}
      [] q.ep = "getUserEnrolledCourses"  -> {Tag("Courses", NoId),
                                              Tag("UserCourseProgress", NoId)}
      [] q.ep = "getUserCourseProgress"   -> {Tag("UserCourseProgress", NoId)}
      [] OTHER                            -> {}

\* providesTags of each query endpoint
providesTags(q) ==
    CASE q.ep = "getCourses"              -> {Tag("Courses", NoId)}
      [] q.ep = "getCourse"               -> {Tag("Courses", q.arg)}
      [] q.ep = "getUserEnrolledCourses"  -> {Tag("Courses", NoId),
                                              Tag("UserCourseProgress", NoId)}
      [] q.ep = "getUserCourseProgress"   -> {Tag("UserCourseProgress", NoId)}
      [] OTHER                            -> {}

\* Faulty variant: updateUserCourseProgress declares no invalidatesTags.
invalidatesTagsNoProgress(ep, arg) ==
    CASE ep = "updateUser"               -> {Tag("Users", NoId)}
      [] ep = "createCourse"             -> {Tag("Courses", NoId)}
      [] ep = "updateCourse"             -> {Tag("Courses", arg)}
      [] ep = "deleteCourse"             -> {Tag("Courses", NoId)}
      [] OTHER                           -> {}

\* Faulty variant: updateCourse invalidates the whole Courses type.
invalidatesTagsCoarse(ep, arg) ==
    CASE ep = "updateUser"               -> {Tag("Users", NoId)}
      [] ep = "createCourse"             -> {Tag("Courses", NoId)}
      [] ep = "updateCourse"             -> {Tag("Courses", NoId)}
      [] ep = "deleteCourse"             -> {Tag("Courses", NoId)}
      [] ep = "updateUserCourseProgress" -> {Tag("UserCourseProgress", NoId)}
      [] OTHER                           -> {}

\* invalidatesTags of each mutation endpoint (arg: the course id, where used)
invalidatesTags(ep, arg) ==
    CASE ep = "updateUser"               -> {Tag("Users", NoId)}
      [] ep = "createCourse"             -> {Tag("Courses", NoId)}
      [] ep = "updateCourse"             -> {Tag("Courses", arg)}
      [] ep = "deleteCourse"             -> {Tag("Courses", NoId)}
      [] ep = "updateUserCourseProgress" -> {Tag("UserCourseProgress", NoId)}
      [] OTHER                           -> {}

\* The request descriptor each endpoint's query() builds.
QueryArgs(q) ==
    IF q.ep = "getCourses"
    THEN Obj([url |-> Str("courses"), params |-> Obj(<<>>)])
    ELSE Str(q.ep \o "/" \o q.arg)

MutationMethod(ep) ==
    CASE ep = "updateUser"               -> "PUT"
      [] ep = "createCourse"             -> "POST"
      [] ep = "updateCourse"             -> "PUT"
      [] ep = "deleteCourse"             -> "DELETE"
      [] ep = "updateUserCourseProgress" -> "PUT"
      [] OTHER                           -> "POST"

MutationArgs(ep, arg) ==
    Obj([url |-> Str(ep \o "/" \o arg), method |-> Str(MutationMethod(ep))])

---------------------------------------------------------------------------
(* Transport results and the backend *)

Meta == Obj(<<>>)
OkResult(payload)       == Obj([data |-> payload, meta |-> Meta])
StatusError(code, body) == Obj([error |-> Obj([status |-> Num(code), data |-> body]),
                                meta  |-> Meta])
FetchError == Obj([error |-> Obj([status |-> Str("FETCH_ERROR"),
                                  error  |-> Str("TypeError: Failed to fetch")]),
                   meta  |-> Meta])

Envelope(message, payload) == Obj([message |-> Str(message), data |-> payload])

\* The course-progress document the backend keeps for ProgressKey, holding
\* the sections array it stored last.
ProgressDoc(sectionsId) ==
    Obj([userId |-> Str("u1"), courseId |-> Str("c1"), sections |-> Arr(sectionsId)])

\* What the backend answers to a GET of query q.
QueryPayload(q, srv) ==
    CASE q.ep = "getUserCourseProgress"  -> srv
      [] q.ep = "getCourse"              -> Obj([courseId |-> Str(q.arg)])
      [] OTHER                           -> Arr(0)

\* What the backend answers to a mutation it accepted.
MutationPayload(ep, srv) ==
    CASE ep = "updateUserCourseProgress" -> Envelope("Course progress updated", srv)
      [] ep = "deleteCourse"             -> Obj([message |-> Str("Course deleted")])
      [] OTHER                           -> Envelope("Course saved", Obj(<<>>))

ServerFailure == StatusError(500, Obj([message |-> Str("Internal error")]))

---------------------------------------------------------------------------
(* Cache entries, optimistic patch and undo *)

Uninitialized ==
    [status |-> "uninitialized", data |-> Undefined, subs |-> FALSE, resp |-> Undefined]

NoMutation ==
    [status |-> "uninitialized", ep |-> "", arg |-> "", sections |-> 0,
     inversePatches |-> <<>>, resp |-> Undefined]

\* The recipe: Object.assign(draft, { ...draft, sections: progressData.sections })
Recipe(draft, sections) == WithField(draft, "sections", sections)

ReplacePatch(field, value) == [op |-> "replace", field |-> field, value |-> value]

\* Faulty variant: the patches are dropped, the data is returned as it is.
applyPatchesDropped(data, patches) == data

RECURSIVE applyPatches(_, _)
applyPatches(data, patches) ==
    IF patches = <<>> THEN data
    ELSE applyPatches(WithField(data, Head(patches).field, Head(patches).value),
                      Tail(patches))

\* Faulty variant: a missing entry is created from the patch (an upsert).
updateQueryDataUpsert(qs, q, sections) ==
    IF qs[q].status = "uninitialized" \/ qs[q].data = Undefined
    THEN [queries |-> [qs EXCEPT ![q] =
                          [status |-> "fulfilled", subs |-> TRUE, resp |-> Undefined,
                           data |-> Obj([sections |-> sections])]],
          inversePatches |-> <<>>]
    ELSE [queries |-> [qs EXCEPT ![q].data = Recipe(@, sections)],
          inversePatches |-> <<ReplacePatch("sections", Get(qs[q].data, "sections"))>>]

\* api.util.updateQueryData("getUserCourseProgress", { userId, courseId }, recipe):
\* nothing happens unless the entry exists and holds data; otherwise the
\* recipe's patches are applied and their inverses are kept for undo().
updateQueryData(qs, q, sections) ==
    IF qs[q].status = "uninitialized" \/ qs[q].data = Undefined
    THEN [queries |-> qs, inversePatches |-> <<>>]
    ELSE [queries |-> [qs EXCEPT ![q].data = Recipe(@, sections)],
          inversePatches |-> <<ReplacePatch("sections", Get(qs[q].data, "sections"))>>]

\* Faulty variant: the catch block does not revert.
undoNothing(qs, q, inversePatches) == qs

\* patchResult.undo(): the inverse patches applied to the entry as it is now.
undo(qs, q, inversePatches) ==
    IF qs[q].status = "uninitialized" \/ inversePatches = <<>>
    THEN qs
    ELSE [qs EXCEPT ![q].data = applyPatches(@, inversePatches)]

---------------------------------------------------------------------------
(* Tag invalidation *)

hasPendingRequests(qs, ms) ==
    \/ \E q \in QueryKeys : qs[q].status = "pending"
    \/ \E m \in MutationIds : ms[m].status = "pending"

\* Entries whose provided tags match one of `tags`: a tag without id matches
\* every id of its type, a tag with an id only that id.
selectInvalidatedBy(qs, tags) ==
    {q \in QueryKeys :
        /\ qs[q].status \in {"fulfilled", "rejected"}
        /\ \E t \in tags, p \in providesTags(q) :
              p.type = t.type /\ (t.id = NoId \/ p.id = t.id)}

\* An invalidated entry: removed when nothing subscribes to it, refetched
\* otherwise (its data stays while the refetch is in flight).
Invalidated(entry) ==
    IF ~entry.subs THEN Uninitialized
    ELSE [entry EXCEPT !.status = "pending", !.resp = Undefined]

\* The invalidation middleware, run after every query and mutation ends:
\* the tags wait while any request is pending, then all are applied at once.
InvalidationHandler(qs, ms, newTags) ==
    LET tags == pendingTags \cup newTags
    IN  IF hasPendingRequests(qs, ms)
        THEN [queries |-> qs, pendingTags |-> tags]
        ELSE [queries |-> [q \in QueryKeys |->
                              IF q \in selectInvalidatedBy(qs, tags)
                              THEN Invalidated(qs[q]) ELSE qs[q]],
              pendingTags |-> {}]

---------------------------------------------------------------------------
(* Inputs of the middleware: request descriptors and transport results *)

Methods == {"GET", "POST", "PUT", "DELETE"}

Descriptors ==
    {Str("transactions?userId=u1"), Obj([url |-> Str("courses")])}
    \cup {Obj([url |-> Str("transactions"), method |-> Str(m)]) : m \in Methods}

Messages == {Str(""), Str("done")}

NestedData ==
    {Null, Num(0), Bool(FALSE), Str(""), Num(7), Bool(TRUE), Str("x"), Arr(1),
     Obj([id |-> Str("c1")]), Obj([data |-> Str("inner")])}

\* Success payloads: primitives, and objects with or without `message`,
\* `data` and a field of their own.
Payloads ==
    {Null, Str("ok"), Arr(2)}
    \cup {Obj(f) : f \in
            {<<>>, [id |-> Str("c1")]}
            \cup {[message |-> m] : m \in Messages}
            \cup {[data |-> d] : d \in NestedData}
            \cup {[message |-> m, data |-> d] : m \in Messages, d \in NestedData}
            \cup {[id |-> Str("c1"), data |-> d] : d \in NestedData}}

ErrorBodies ==
    {Null, Str("<html>"), Obj(<<>>), Obj([error |-> Str("bad")])}
    \cup {Obj([message |-> m]) : m \in Messages}

ErrorValues ==
    {Obj([status |-> st, data |-> b]) :
        st \in {Num(0), Num(404), Num(500), Str("PARSING_ERROR")}, b \in ErrorBodies}
    \cup {Obj([status |-> Str("FETCH_ERROR"), error |-> Str("TypeError: Failed to fetch")]),
          Obj([data |-> Obj([message |-> Str("done")])]),
          Obj([error |-> Str("unknown")])}

TransportResults ==
    {OkResult(p) : p \in Payloads}
    \cup {Obj([error |-> e, meta |-> Meta]) : e \in ErrorValues}

---------------------------------------------------------------------------
(* State machine *)

Idle ==
    [active |-> FALSE, args |-> Undefined, result |-> Undefined,
     toasts |-> <<>>, threw |-> FALSE, ret |-> Undefined]

Recorded(args, result, out) ==
    [active |-> TRUE, args |-> args, result |-> result,
     toasts |-> out.toasts, threw |-> out.threw, ret |-> out.ret]

Init ==
    /\ call = Idle
    /\ queries = [q \in QueryKeys |-> Uninitialized]
    /\ mutations = [m \in MutationIds |-> NoMutation]
    /\ pendingTags = {}
    /\ server = ProgressDoc(0)

\* A request of an endpoint that declares no tags (getTransactions,
\* createTransaction, createStripePaymentIntent, getUploadVideoUrl): only
\* the middleware acts on it.
UntaggedRequest(args, result, toastThrows) ==
    /\ call' = Recorded(args, result, customBaseQuery(args, result, toastThrows))
    /\ UNCHANGED <<queries, mutations, pendingTags, server>>

\* A component mounts a query hook: the first fetch of the entry starts.
initiate(q) ==
    /\ queries[q].status = "uninitialized"
    /\ queries' = [queries EXCEPT ![q] =
                      [status |-> "pending", data |-> Undefined, subs |-> TRUE,
                       resp |-> Undefined]]
    /\ UNCHANGED <<call, mutations, pendingTags, server>>

\* The component unmounts: the entry stays cached without a subscriber.
unsubscribe(q) ==
    /\ queries[q].status = "fulfilled"
    /\ queries[q].subs
    /\ queries' = [queries EXCEPT ![q].subs = FALSE]
    /\ UNCHANGED <<call, mutations, pendingTags, server>>

\* What the backend may answer to the GET of query q: the payload, bare
\* or in an envelope, or a failure.
QueryAnswers(q, srv) ==
    {OkResult(QueryPayload(q, srv)),
     OkResult(Envelope("ok", QueryPayload(q, srv))),
     ServerFailure}

\* The backend answers the GET of the pending progress query from the
\* document it holds at that moment; the answer is then in flight.
ServerAnswersQuery(q, result) ==
    /\ q.ep = "getUserCourseProgress"
    /\ queries[q].status = "pending"
    /\ queries[q].resp = Undefined
    /\ result \in QueryAnswers(q, server)
    /\ queries' = [queries EXCEPT ![q].resp = result]
    /\ UNCHANGED <<call, mutations, pendingTags, server>>

\* The results a pending query can end with: the answer in flight or a
\* transport failure; a course query's answer does not depend on modelled
\* backend state and is drawn when it arrives.
QueryResults(q) ==
    IF q.ep = "getUserCourseProgress"
    THEN {queries[q].resp, FetchError} \ {Undefined}
    ELSE QueryAnswers(q, server) \cup {FetchError}

\* The query's request ends: the answer arrives, or the transport fails.
\* The result passes customBaseQuery; the entry is fulfilled or rejected;
\* the invalidation middleware then runs.
QueryEnds(q, result) ==
    /\ queries[q].status = "pending"
    /\ result \in QueryResults(q)
    /\ \E out \in {customBaseQuery(QueryArgs(q), result, FALSE)} :
       \E qs \in {IF IsErrorResult(out.ret)
                  THEN [queries EXCEPT ![q].status = "rejected", ![q].resp = Undefined]
                  ELSE [queries EXCEPT ![q].status = "fulfilled", ![q].resp = Undefined,
                                       ![q].data = Get(out.ret, "data")]} :
       \E inv \in {InvalidationHandler(qs, mutations, {})} :
           /\ queries' = inv.queries
           /\ pendingTags' = inv.pendingTags
    /\ UNCHANGED <<call, mutations, server>>

\* Mutation slots are taken in call order.
NextSlot(m) ==
    /\ mutations[m].status = "uninitialized"
    /\ \A k \in MutationIds : k < m => mutations[k].status # "uninitialized"

CourseCalls ==
    {[ep |-> "createCourse", arg |-> NoId]}
    \cup {[ep |-> ep, arg |-> c] : ep \in {"updateCourse", "deleteCourse"}, c \in CourseIds}

\* updateUserCourseProgress is called: the mutation starts and
\* onQueryStarted patches the cached entry before anything is awaited.
updateUserCourseProgress(m, s) ==
    /\ NextSlot(m)
    /\ LET p == updateQueryData(queries, ProgressQuery, Arr(s))
       IN  /\ queries' = p.queries
           /\ mutations' = [mutations EXCEPT ![m] =
                 [status |-> "pending", ep |-> "updateUserCourseProgress",
                  arg |-> ProgressKey, sections |-> s,
                  inversePatches |-> p.inversePatches, resp |-> Undefined]]
    /\ UNCHANGED <<call, pendingTags, server>>

\* createCourse, updateCourse or deleteCourse is called.
courseMutation(m, c) ==
    /\ NextSlot(m)
    /\ mutations' = [mutations EXCEPT ![m] =
          [status |-> "pending", ep |-> c.ep, arg |-> c.arg, sections |-> 0,
           inversePatches |-> <<>>, resp |-> Undefined]]
    /\ UNCHANGED <<call, queries, pendingTags, server>>

\* The backend handles a pending progress update: it stores the sections
\* and answers, or refuses the request.
ServerHandlesMutation(m, ok) ==
    /\ mutations[m].status = "pending"
    /\ mutations[m].ep = "updateUserCourseProgress"
    /\ mutations[m].resp = Undefined
    /\ LET srv == IF ok THEN ProgressDoc(mutations[m].sections) ELSE server
       IN  /\ server' = srv
           /\ mutations' = [mutations EXCEPT ![m].resp =
                 IF ok THEN OkResult(MutationPayload(mutations[m].ep, srv))
                 ELSE ServerFailure]
    /\ UNCHANGED <<call, queries, pendingTags>>

\* The results a pending mutation can end with.
MutationResults(m) ==
    IF mutations[m].ep = "updateUserCourseProgress"
    THEN {mutations[m].resp, FetchError} \ {Undefined}
    ELSE {OkResult(MutationPayload(mutations[m].ep, server)), ServerFailure, FetchError}

\* The mutation's request ends.  queryFulfilled settles: on rejection the
\* catch block of onQueryStarted undoes the patch.  The mutation's tags are
\* handed to the invalidation middleware in both cases.
MutationEnds(m, result) ==
    /\ mutations[m].status = "pending"
    /\ result \in MutationResults(m)
    /\ \E mu \in {mutations[m]} :
       \E out \in {customBaseQuery(MutationArgs(mu.ep, mu.arg), result, FALSE)} :
       \E fail \in {IsErrorResult(out.ret)} :
       \E ms \in {[mutations EXCEPT ![m].status = IF fail THEN "rejected" ELSE "fulfilled",
                                    ![m].resp = Undefined]} :
       \E qs \in {IF fail THEN undo(queries, ProgressQuery, mu.inversePatches)
                  ELSE queries} :
       \E inv \in {InvalidationHandler(qs, ms, invalidatesTags(mu.ep, mu.arg))} :
           /\ mutations' = ms
           /\ queries' = inv.queries
           /\ pendingTags' = inv.pendingTags
    /\ UNCHANGED <<call, server>>

NextBaseQuery ==
    \E args \in Descriptors, result \in TransportResults :
        UntaggedRequest(args, result, FALSE)

NextToastThrows ==
    \E args \in Descriptors, result \in TransportResults, t \in BOOLEAN :
        UntaggedRequest(args, result, t)

\* The course page: the progress entry and the mutation that patches it,
\* with the updates taking the slots given.
ProgressStep(slots) ==
    \/ \E q \in ProgressQueries : initiate(q)
    \/ \E q \in ProgressQueries : \E r \in QueryAnswers(q, server) :
          ServerAnswersQuery(q, r)
    \/ \E q \in ProgressQueries : \E r \in QueryResults(q) : QueryEnds(q, r)
    \/ \E m \in slots, s \in SectionIds : updateUserCourseProgress(m, s)
    \/ \E m \in slots, ok \in BOOLEAN : ServerHandlesMutation(m, ok)
    \/ \E m \in slots : \E r \in MutationResults(m) : MutationEnds(m, r)

NextProgress  == ProgressStep(ProgressSlots)
NextReconcile == ProgressStep(ReconcileSlots)

\* The course catalogue: the entries tagged Courses and the course mutations.
NextCourses ==
    \/ \E q \in CourseQueries : initiate(q)
    \/ \E q \in CourseQueries : unsubscribe(q)
    \/ \E q \in CourseQueries : \E r \in QueryResults(q) : QueryEnds(q, r)
    \/ \E m \in CourseSlots, c \in CourseCalls : courseMutation(m, c)
    \/ \E m \in CourseSlots : \E r \in MutationResults(m) : MutationEnds(m, r)

SpecBaseQuery   == Init /\ [][NextBaseQuery]_vars
SpecToastThrows == Init /\ [][NextToastThrows]_vars
SpecProgress    == Init /\ [][NextProgress]_vars

\* Every request ends: the transport settles each fetch with a response or
\* a failure.
RequestsEnd ==
    /\ WF_vars(\E q \in ProgressQueries : \E r \in QueryResults(q) : QueryEnds(q, r))
    /\ WF_vars(\E m \in ReconcileSlots : \E r \in MutationResults(m) : MutationEnds(m, r))

SpecProgressFair == Init /\ [][NextReconcile]_vars /\ RequestsEnd
SpecCourses     == Init /\ [][NextCourses]_vars

---------------------------------------------------------------------------
(* Claims about the middleware (SpecBaseQuery, SpecToastThrows) *)

CallFailed    == call.active /\ HasField(call.result, "error")
CallSucceeded == call.active /\ ~HasField(call.result, "error")
CallError     == Get(call.result, "error")
CallErrorBody == Get(CallError, "data")
CallPayload   == Get(call.result, "data")
CallMethod    == Get(call.args, "method")
CallIsWrite   == HasField(call.args, "method") /\ CallMethod # Str("GET")

\* The message the claim's precedence gives, `present` deciding when the
\* server's message field counts as supplied.
ExpectedErrorText(present) ==
    IF present THEN Get(CallErrorBody, "message").s
    ELSE IF HasField(CallError, "status")
         THEN (IF Get(CallError, "status").t = "number"
               THEN ToString(Get(CallError, "status").n)
               ELSE Get(CallError, "status").s)
         ELSE "An error occurred"

ErrorNotifiedOnce(present) ==
    CallFailed =>
        /\ call.toasts = <<ErrorToast(Str("Error: " \o ExpectedErrorText(present)))>>
        /\ call.ret = call.result

\* C3 (as stated): every error result emits exactly one error notification
\* and no success notification, its text being "Error: " followed by the
\* server's message field if present, else the status code as a string,
\* else "An error occurred"; the error result is returned unchanged.
C3_ErrorToastMessagePresent ==
    ErrorNotifiedOnce(HasField(CallErrorBody, "message"))

\* C3 (amended): the same, the server's message being used when it is
\* present and not the empty string; an empty message falls through to the
\* status code.
C3_ErrorToastMessageNonEmpty ==
    ErrorNotifiedOnce(/\ HasField(CallErrorBody, "message")
                      /\ Get(CallErrorBody, "message") # Str(""))

\* An error whose body carries a message was notified with that message, and
\* one without a message with its status.
C3_Witness ==
    /\ CallFailed
    /\ HasField(CallErrorBody, "message")
    /\ call.toasts = <<ErrorToast(Str("Error: done"))>>
    /\ HasField(CallError, "status")

SuccessNotified(carriesMessage) ==
    /\ (CallSucceeded /\ CallIsWrite /\ carriesMessage)
          => call.toasts = <<SuccessToast(Get(CallPayload, "message"))>>
    /\ (CallSucceeded /\ ~CallIsWrite) => call.toasts = <<>>

\* C4 (as stated): a successful response to a call whose method is present
\* and not GET, and whose payload carries a message field, emits exactly one
\* success notification with that message; a read (GET, a bare URL, a
\* descriptor without method) never emits one.
C4_SuccessToastMessagePresent ==
    SuccessNotified(HasField(CallPayload, "message"))

\* C4 (amended): the same for a payload whose message field is not the
\* empty string; an empty message emits nothing.
C4_SuccessToastMessageNonEmpty ==
    SuccessNotified(/\ HasField(CallPayload, "message")
                    /\ Get(CallPayload, "message") # Str(""))

\* A DELETE answered with a message was notified once with it.
C4_Witness ==
    /\ CallSucceeded
    /\ CallMethod = Str("DELETE")
    /\ HasField(CallPayload, "message")
    /\ call.toasts = <<SuccessToast(Str("done"))>>

\* C5: a successful payload that is an object with a nested data field is
\* delivered as that field's value, whatever the value (null, 0, false and
\* "" included); a payload without one is delivered unchanged.
C5_EnvelopeUnwrapped ==
    CallSucceeded =>
        IF HasField(CallPayload, "data")
        THEN call.ret = WithField(call.result, "data", Get(CallPayload, "data"))
        ELSE call.ret = call.result

\* C6: a notification call that throws does not fail the request: a result
\* is still returned, an error for an error and a success for a success.
C6_ToastFailureHarmless ==
    call.active =>
        /\ ~call.threw
        /\ HasField(call.ret, "error") = HasField(call.result, "error")
        /\ HasField(call.ret, "data") = HasField(call.result, "data")

---------------------------------------------------------------------------
(* Claims about the optimistic update (SpecProgress, SpecProgressFair) *)

ProgressEntry  == queries[ProgressQuery]
CachedSections == Get(queries[ProgressQuery].data, "sections")
HasData        == queries[ProgressQuery].data # Undefined
ProgressTag    == Tag("UserCourseProgress", NoId)

Patched(m)  == mutations[m].inversePatches # <<>>
Snapshot(m) == mutations[m].inversePatches[1].value

\* Steps of mutation slot m.
Invoked(m)  == mutations[m].status = "uninitialized" /\ mutations'[m].status = "pending"
Succeeded(m) == mutations[m].status = "pending" /\ mutations'[m].status = "fulfilled"
Failed(m)   == mutations[m].status = "pending" /\ mutations'[m].status = "rejected"
Ended(m)    == Succeeded(m) \/ Failed(m)

\* C1: with a cached entry whose sections are S0, invoking the update with
\* S1 makes the entry read S1 at once (S0 being kept for the undo); when
\* the call fails the entry reads S0 again; when it succeeds the entry's
\* data is left as it is.
C1_OptimisticRoundTrip ==
    [][\A m \in ProgressSlots :
          /\ (Invoked(m) /\ HasData) =>
                /\ CachedSections' = Arr(mutations'[m].sections)
                /\ Patched(m)'
                /\ Snapshot(m)' = CachedSections
          /\ (Failed(m) /\ Patched(m)) => CachedSections' = Snapshot(m)
          /\ Succeeded(m) => queries'[ProgressQuery].data = queries[ProgressQuery].data
      ]_vars

\* A failed update whose patch was undone: the entry reads the sections it
\* held before the call, not the ones the call sent.
C1_Witness ==
    \E m \in ProgressSlots :
        /\ mutations[m].status = "rejected"
        /\ Patched(m)
        /\ CachedSections = Snapshot(m)
        /\ CachedSections # Arr(mutations[m].sections)

\* C2 (as stated): with A and B in flight on the same entry, A called
\* first, A's revert does not clobber B's value: an entry that reads B's
\* sections still reads them after A's undo has run.
C2_RevertKeepsLaterPatch ==
    [][\A a, b \in ProgressSlots :
          (/\ a < b
           /\ Failed(a) /\ Patched(a)
           /\ mutations[b].status \in {"pending", "fulfilled"} /\ Patched(b)
           /\ CachedSections = Arr(mutations[b].sections))
          => CachedSections' = Arr(mutations[b].sections)
      ]_vars

\* C2 (amended): the patches are applied in call order (B patches the value
\* A left and keeps it as its own snapshot), and each undo writes back the
\* snapshot of its own patch, whatever the other mutation did: A's revert
\* puts A's pre-patch sections over B's value and leaves B's undo intact.
C2_EachUndoWritesOwnSnapshot ==
    [][\A a, b \in ProgressSlots :
          a < b =>
            /\ (/\ Invoked(b) /\ HasData
                /\ mutations[a].status = "pending" /\ Patched(a)
                /\ CachedSections = Arr(mutations[a].sections))
               => /\ CachedSections' = Arr(mutations'[b].sections)
                  /\ Patched(b)' /\ Snapshot(b)' = Arr(mutations[a].sections)
            /\ (/\ Failed(a) /\ Patched(a)
                /\ mutations[b].status \in {"pending", "fulfilled"} /\ Patched(b))
               => /\ CachedSections' = Snapshot(a)
                  /\ mutations'[b].inversePatches = mutations[b].inversePatches
            /\ (/\ Failed(b) /\ Patched(b) /\ mutations[a].status = "rejected")
               => CachedSections' = Snapshot(b)
      ]_vars

\* A failed, B succeeded, both had patched the entry: the entry reads A's
\* snapshot, which is neither B's sections nor B's snapshot.
C2_Witness ==
    \E a, b \in ProgressSlots :
        /\ a < b
        /\ mutations[a].status = "rejected" /\ Patched(a)
        /\ mutations[b].status = "fulfilled" /\ Patched(b)
        /\ Snapshot(b) = Arr(mutations[a].sections)
        /\ CachedSections = Snapshot(a)
        /\ CachedSections # Arr(mutations[b].sections)
        /\ server = ProgressDoc(mutations[b].sections)

Quiescent == ~hasPendingRequests(queries, mutations)

C10_NoEntryNoPatch ==
    [][\A m \in ProgressSlots :
          /\ (Invoked(m) /\ ProgressEntry.status = "uninitialized")
             => queries' = queries /\ ~Patched(m)'
          /\ (Ended(m) /\ ~Patched(m))
             => \A q \in QueryKeys :
                   /\ queries'[q].data = queries[q].data
                   /\ queries'[q] # queries[q]
                      => /\ q \in selectInvalidatedBy(queries, pendingTags \cup {ProgressTag})
                         /\ queries'[q] = Invalidated(queries[q])
      ]_vars

\* An update invoked and failed without any progress entry in the cache.
C10_Witness ==
    \E m \in ProgressSlots :
        /\ mutations[m].status = "rejected"
        /\ ~Patched(m)
        /\ ProgressEntry = Uninitialized

---------------------------------------------------------------------------
(* Claims about tag invalidation (SpecCourses) *)

CoursesTag == Tag("Courses", NoId)
Provided(q) == queries[q].status \in {"fulfilled", "rejected"}

\* C8: when a deleteCourse ends, the un-scoped Courses tag is applied (at
\* once, or kept until no request is pending), and applying it invalidates
\* every cached entry tagged Courses: getCourses, getUserEnrolledCourses
\* and getCourse(d) for every d; a subscribed entry is refetched, an
\* unsubscribed one removed.
C8_DeleteInvalidatesAllCourses ==
    [][/\ \A m \in CourseSlots :
             (Ended(m) /\ mutations[m].ep = "deleteCourse")
             => (pendingTags' = {} \/ CoursesTag \in pendingTags')
       /\ (/\ pendingTags' = {}
           /\ \/ CoursesTag \in pendingTags
              \/ \E m \in CourseSlots : Ended(m) /\ mutations[m].ep = "deleteCourse")
             => \A q \in CourseQueries :
                   /\ queries'[q].status \in {"uninitialized", "pending"}
                   /\ Provided(q) => queries'[q] = Invalidated(queries[q])
      ]_vars

\* deleteCourse("c1") has ended and every Courses entry, getCourse("c2")
\* included, is being refetched.
C8_Witness ==
    /\ mutations[1].ep = "deleteCourse" /\ mutations[1].arg = "c1"
    /\ mutations[1].status = "fulfilled"
    /\ \A q \in CourseQueries :
          queries[q].status = "pending" /\ queries[q].data # Undefined

\* C9: when the only tag applied is Courses:c of an updateCourse for c, the
\* getCourse(c) entry is invalidated and every other entry (getCourse(d)
\* for d # c, getCourses, getUserEnrolledCourses) is left as it is.
C9_UpdateInvalidatesOneCourse ==
    [][/\ \A m \in CourseSlots :
             (Ended(m) /\ mutations[m].ep = "updateCourse")
             => \/ pendingTags' = {}
                \/ /\ pendingTags' = pendingTags \cup {Tag("Courses", mutations[m].arg)}
                   /\ queries' = queries
       /\ \A c \in CourseIds :
             (/\ pendingTags' = {}
              /\ \/ /\ pendingTags = {Tag("Courses", c)}
                    /\ \A m \in CourseSlots : ~Ended(m)
                 \/ /\ pendingTags = {}
                    /\ \E m \in CourseSlots :
                          /\ Ended(m)
                          /\ mutations[m].ep = "updateCourse"
                          /\ mutations[m].arg = c)
             => \A q \in QueryKeys :
                   IF q = CourseQuery(c)
                   THEN Provided(q) => queries'[q] = Invalidated(queries[q])
                   ELSE queries[q].status # "pending" => queries'[q] = queries[q]
      ]_vars

\* updateCourse for c1 has ended: getCourse("c1") is being refetched, the
\* other Courses entries are still fulfilled.
C9_Witness ==
    /\ mutations[1].ep = "updateCourse" /\ mutations[1].arg = "c1"
    /\ mutations[1].status = "fulfilled"
    /\ queries[CourseQuery("c1")].status = "pending"
    /\ queries[CourseQuery("c1")].data # Undefined
    /\ \A q \in CourseQueries \ {CourseQuery("c1")} : queries[q].status = "fulfilled"

=============================================================================
